---------------------------- MODULE Spec2Model ----------------------------
(***************************************************************************)
(* Blocked matrix multiplication of 03-matrix-multiplication.ipynb:        *)
(* the kernel matmul_kernel (grouped program-id mapping, modulo-wrapped    *)
(* tile addresses, masked K loop, fused activation, masked store), the     *)
(* host wrapper matmul, and the shape-keyed autotuner that wraps the       *)
(* kernel.                                                                 *)
(*                                                                         *)
(* Numbers.  Input elements are integer-valued.  The fp32 accumulator and  *)
(* the fp16 output are carried in hundredths (Scale), so that 0.01 * x is  *)
(* exact for the integer sums the model produces.                          *)
(***************************************************************************)
EXTENDS Integers, Sequences, FiniteSets, TLC

\* ------------------------------------------------------------------ bounds
MaxM == 3           \* rows of A and C
MaxN == 2           \* columns of B and C
MaxK == 3           \* reduction length
MaxBlock == 2       \* BLOCK_SIZE_M, BLOCK_SIZE_N, BLOCK_SIZE_K range over 1..MaxBlock
MaxGroup == 2       \* GROUP_SIZE_M ranges over 1..MaxGroup
MaxActive == 2      \* program instances in flight at the same time
MaxCalls == 2       \* invocations of matmul(a, b) on the same tensors
MaxCallers == 2     \* concurrent callers of the autotuner
MaxInvocations == 3 \* autotuner lookups started, over all callers
MaxCandidates == 3  \* catalog entries a benchmarking sweep goes through
MaxShapes == 2      \* distinct shape keys the callers use
MaxCost == 2        \* measured costs range over 1..MaxCost
GridMaxDim == 9     \* M and N, for the program-id mapping alone
GridMaxBlock == 4   \* block sizes, for the program-id mapping alone
GridMaxGroup == 4   \* GROUP_SIZE_M, for the program-id mapping alone
ReuseMaxDim == 9    \* M, N and K, for the input blocks loaded
ReuseMaxBlock == 2  \* the (square) block size, for the input blocks loaded
ReuseMaxGroup == 3  \* GROUP_SIZE_M, for the input blocks loaded

\* ------------------------------------------------------- program constants
Scale == 100        \* fixed point: 0.01 is one unit
Fp16Exact == 2048   \* every integer of magnitude <= 2^11 is an fp16 value

Min(x, y) == IF x <= y THEN x ELSE y
Abs(x) == IF x >= 0 THEN x ELSE -x

\* tl.cdiv / triton.cdiv
cdiv(x, y) == (x + y - 1) \div y

\* ------------------------------------------- matmul_kernel: pid -> tile
num_pid_m(M, c) == cdiv(M, c.BLOCK_SIZE_M)
num_pid_n(N, c) == cdiv(N, c.BLOCK_SIZE_N)
num_pid_in_group(N, c) == c.GROUP_SIZE_M * num_pid_n(N, c)
group_id(pid, N, c) == pid \div num_pid_in_group(N, c)
first_pid_m(pid, N, c) == group_id(pid, N, c) * c.GROUP_SIZE_M

group_size_m_unclamped(pid, M, N, c) == c.GROUP_SIZE_M
group_size_m_one(pid, M, N, c) == 1
group_size_m(pid, M, N, c) ==
    Min(num_pid_m(M, c) - first_pid_m(pid, N, c), c.GROUP_SIZE_M)

pid_m_rowmajor(pid, M, N, c) == pid \div num_pid_n(N, c)
pid_m(pid, M, N, c) ==
    first_pid_m(pid, N, c)
        + ((pid % num_pid_in_group(N, c)) % group_size_m(pid, M, N, c))
pid_n_rowmajor(pid, M, N, c) == pid % num_pid_n(N, c)
pid_n(pid, M, N, c) ==
    (pid % num_pid_in_group(N, c)) \div group_size_m(pid, M, N, c)

\* grid = cdiv(M, BLOCK_SIZE_M) * cdiv(N, BLOCK_SIZE_N) in matmul
grid(M, N, c) == cdiv(M, c.BLOCK_SIZE_M) * cdiv(N, c.BLOCK_SIZE_N)

\* ------------------------------------------------- get_autotune_config
\* The catalog: an ordered list of configurations.  The block sizes of the
\* source (16..256) are scaled to 1..MaxBlock and GROUP_SIZE_M to 1..MaxGroup.
NumConfigs == MaxBlock * MaxBlock * MaxBlock * MaxGroup

Config(i) ==
    [BLOCK_SIZE_M |-> (i % MaxBlock) + 1,
     BLOCK_SIZE_N |-> ((i \div MaxBlock) % MaxBlock) + 1,
     BLOCK_SIZE_K |-> ((i \div (MaxBlock * MaxBlock)) % MaxBlock) + 1,
     GROUP_SIZE_M |-> (i \div (MaxBlock * MaxBlock * MaxBlock)) + 1]

get_autotune_config == [i \in 1..NumConfigs |-> Config(i - 1)]

NoConfig ==
    [BLOCK_SIZE_M |-> 0, BLOCK_SIZE_N |-> 0, BLOCK_SIZE_K |-> 0, GROUP_SIZE_M |-> 0]

\* ------------------------------------------------------------ the tensors
Activations == {"", "leaky_relu", "relu"}
\* <<element values, b is a transposed view, activation>>: small signed
\* values in row-major tensors under every activation, and large values with
\* b transposed (the unit test's second case: b = b.T)
TestInputs ==
    {<<"signed", FALSE, act>> : act \in Activations} \cup {<<"large", TRUE, "">>}
Garbage == {-77, 99}         \* what unwritten or out-of-buffer memory may hold

VARIABLES
    g_M, g_N, g_cfg,    \* program-id mapping alone: the problem
    g_pid,              \* next program id to map
    g_tiles,            \* g_tiles[p] = <<pid_m, pid_n>> of program p < g_pid
    g_order,            \* "grouped" (the kernel) or "rowmajor" (the simple ordering)
    g_loaded,           \* input blocks the programs p < g_pid have loaded
    a_shape,            \* a.shape = <<M, K>>
    a_contig,           \* a.is_contiguous()
    b_shape,            \* b.shape = <<K, N>>
    b_trans,            \* b is a transposed view (b = b.T in the unit test)
    pat,                \* which element values a and b hold
    activation,         \* the activation argument of matmul
    host_pc,            \* "idle", "rejected", "failed", "running"
    ncalls,             \* calls of matmul made so far
    c_buf,              \* the output buffer c, by address; <<>> before allocation
    prev_c,             \* the tensor the previous call returned
    cache,              \* autotuner: shape key -> memoized configuration
    sweeps,             \* autotuner: shape key -> benchmarking sweeps run
    cfg,                \* the configuration the running launch resolved to
    upc,                \* per program: "ready", "loop", "done"
    uk,                 \* per program: the loop variable k
    acc,                \* per program: the accumulator tile
    a_reads,            \* <<row, k index, address>> of every element read from A
    b_reads,            \* <<k index, column, address>> of every element read from B
    stores,             \* <<pid, row, column, address>> of every element stored to C
    t_pc,               \* per caller: "idle", "wait", "lookup", "bench"
    t_key,              \* per caller: the shape key of its lookup
    t_out,              \* per caller: outcome per candidate benchmarked (0: failed)
    lock,               \* the caller inside the benchmark-and-cache section, or 0
    invocations,        \* lookups started so far
    t_fails,            \* <<key, candidate>> pairs that fail to execute
    resolved,           \* shape key -> the configurations lookups returned
    failed_keys         \* shape keys for which a lookup failed

gvars == <<g_M, g_N, g_cfg, g_pid, g_tiles, g_order, g_loaded>>
ivars == <<a_shape, a_contig, b_shape, b_trans, pat, activation>>
hvars == <<host_pc, ncalls, c_buf, prev_c, cfg>>
tvars == <<cache, sweeps>>
uvars == <<upc, uk, acc, a_reads, b_reads, stores>>

xvars == <<t_pc, t_key, t_out, lock, invocations, t_fails, resolved, failed_keys>>

vars == <<gvars, ivars, hvars, tvars, uvars, xvars>>

M == a_shape[1]
K == a_shape[2]
N == b_shape[2]

\* a.stride(0), a.stride(1): row-major when contiguous, else a transposed view
stride_am == IF a_contig THEN K ELSE 1
stride_ak == IF a_contig THEN 1 ELSE M
\* b.stride(0), b.stride(1)
stride_bk == IF b_trans THEN 1 ELSE N
stride_bn == IF b_trans THEN K ELSE 1
\* c = torch.empty((M, N)): row-major
stride_cm == N
stride_cn == 1

\* element values of a and b (integer-valued fp16)
A(i, k) == IF pat = "signed" THEN (i * K + k) - 1 ELSE 683 + (i * K + k)
B(k, j) == IF pat = "signed" THEN (k * N + j) + 1 ELSE 3 + (k * N + j)

\* memory behind a_ptr and b_ptr: the element stored at an address, or
\* whatever lies outside the buffer
ReadA(ptr, g) ==
    IF \E i \in 0..(M - 1), k \in 0..(K - 1) : i * stride_am + k * stride_ak = ptr
    THEN LET e == CHOOSE e \in (0..(M - 1)) \X (0..(K - 1)) :
                      e[1] * stride_am + e[2] * stride_ak = ptr
         IN  A(e[1], e[2])
    ELSE g
ReadB(ptr, g) ==
    IF \E k \in 0..(K - 1), j \in 0..(N - 1) : k * stride_bk + j * stride_bn = ptr
    THEN LET e == CHOOSE e \in (0..(K - 1)) \X (0..(N - 1)) :
                      e[1] * stride_bk + e[2] * stride_bn = ptr
         IN  B(e[1], e[2])
    ELSE g

\* ------------------------------------------ matmul_kernel: tile addresses
Rows(c) == 0..(c.BLOCK_SIZE_M - 1)      \* tl.arange(0, BLOCK_SIZE_M)
Cols(c) == 0..(c.BLOCK_SIZE_N - 1)      \* tl.arange(0, BLOCK_SIZE_N)
Ks(c) == 0..(c.BLOCK_SIZE_K - 1)        \* offs_k = tl.arange(0, BLOCK_SIZE_K)

offs_am_nowrap(pid, r, c) == pid_m(pid, M, N, c) * c.BLOCK_SIZE_M + r
offs_am(pid, r, c) == (pid_m(pid, M, N, c) * c.BLOCK_SIZE_M + r) % M
offs_bn(pid, j, c) == (pid_n(pid, M, N, c) * c.BLOCK_SIZE_N + j) % N

\* a_ptrs and b_ptrs in iteration k (advanced k times by BLOCK_SIZE_K * stride)
a_ptrs(pid, k, r, kk, c) ==
    offs_am(pid, r, c) * stride_am + kk * stride_ak + k * c.BLOCK_SIZE_K * stride_ak
b_ptrs(pid, k, kk, j, c) ==
    kk * stride_bk + offs_bn(pid, j, c) * stride_bn + k * c.BLOCK_SIZE_K * stride_bk

\* mask = offs_k < K - k * BLOCK_SIZE_K
k_mask_none(k, kk, c) == TRUE
k_mask(k, kk, c) == kk < K - k * c.BLOCK_SIZE_K

\* tl.load(a_ptrs, mask, other=0.0), tl.load(b_ptrs, mask, other=0.0)
load_a(pid, k, r, kk, c, g) ==
    IF k_mask(k, kk, c) THEN ReadA(a_ptrs(pid, k, r, kk, c), g) ELSE 0
load_b(pid, k, kk, j, c, g) ==
    IF k_mask(k, kk, c) THEN ReadB(b_ptrs(pid, k, kk, j, c), g) ELSE 0

\* what the loads of iteration k may find outside the buffers of a and b
Outside(pid, k, c) ==
    IF /\ \A r \in Rows(c), kk \in Ks(c) :
            k_mask(k, kk, c) => a_ptrs(pid, k, r, kk, c) \in 0..(M * K - 1)
       /\ \A kk \in Ks(c), j \in Cols(c) :
            k_mask(k, kk, c) => b_ptrs(pid, k, kk, j, c) \in 0..(K * N - 1)
    THEN {0} ELSE Garbage

\* the fp32 accumulator holds hundredths
Fixed(x) == Scale * x

\* tl.dot(a, b, accumulator): accumulator + a x b, for one iteration k
dot(pid, k, c, g, accumulator) ==
    [rc \in Rows(c) \X Cols(c) |->
        LET S[n \in 0..c.BLOCK_SIZE_K] ==
                IF n = 0 THEN 0
                ELSE S[n - 1] + load_a(pid, k, rc[1], n - 1, c, g)
                                  * load_b(pid, k, n - 1, rc[2], c, g)
        IN  accumulator[rc] + Fixed(S[c.BLOCK_SIZE_K])]

\* tl.zeros((BLOCK_SIZE_M, BLOCK_SIZE_N), dtype=tl.float32)
zeros(c) == [rc \in Rows(c) \X Cols(c) |-> 0]

\* ------------------------------------------------ matmul_kernel: epilogue
\* tl.where(x >= 0, x, 0.01 * x)
leaky_relu(x) == IF x >= 0 THEN x ELSE x \div Scale

\* if ACTIVATION == "leaky_relu": accumulator = leaky_relu(accumulator)
Activate_nonempty(x, ACTIVATION) == IF ACTIVATION # "" THEN leaky_relu(x) ELSE x
Activate(x, ACTIVATION) == IF ACTIVATION = "leaky_relu" THEN leaky_relu(x) ELSE x

\* spacing of the fp16 values around v >= Fp16Exact: 2 up to 4096, 4 up to 8192, ...
RECURSIVE Ulp(_)
Ulp(v) == IF v < 2 * Fp16Exact THEN 2 ELSE 2 * Ulp(v \div 2)

\* accumulator.to(tl.float16), on hundredths: values up to 2^11 in magnitude
\* are kept (the integers among them are fp16 values, and the model's
\* fractions are too small to collide); larger ones round to the nearest fp16
\* value, ties to the even significand.
ToFp16(x) ==
    IF Abs(x) <= Fixed(Fp16Exact) THEN x
    ELSE LET u  == Fixed(Ulp(Abs(x) \div Scale))
             lo == (Abs(x) \div u) * u
             r  == Abs(x) - lo
             up == IF 2 * r > u THEN 1
                   ELSE IF 2 * r < u THEN 0
                   ELSE (lo \div u) % 2
             m  == lo + up * u
         IN  IF x >= 0 THEN m ELSE -m

offs_cm(pid, r, c) == pid_m(pid, M, N, c) * c.BLOCK_SIZE_M + r
offs_cn(pid, j, c) == pid_n(pid, M, N, c) * c.BLOCK_SIZE_N + j
c_ptrs(pid, r, j, c) ==
    stride_cm * offs_cm(pid, r, c) + stride_cn * offs_cn(pid, j, c)

\* c_mask = (offs_cm[:, None] < M) & (offs_cn[None, :] < N)
c_mask_rows_only(pid, r, j, c) == offs_cm(pid, r, c) < M
c_mask(pid, r, j, c) == offs_cm(pid, r, c) < M /\ offs_cn(pid, j, c) < N

\* the lanes of tl.store(c_ptrs, c, mask=c_mask) that write
StoreLanes(pid, c) == {rc \in Rows(c) \X Cols(c) : c_mask(pid, rc[1], rc[2], c)}

\* c = accumulator.to(tl.float16) after the activation
Narrowed(accumulator, rc) == ToFp16(Activate(accumulator[rc], activation))

\* the buffer after the store; a lane whose address is outside the buffer
\* writes elsewhere
Stored(pid, c, accumulator) ==
    [p \in DOMAIN c_buf |->
        IF \E rc \in StoreLanes(pid, c) : c_ptrs(pid, rc[1], rc[2], c) = p
        THEN LET rc == CHOOSE rc \in StoreLanes(pid, c) :
                           c_ptrs(pid, rc[1], rc[2], c) = p
             IN  Narrowed(accumulator, rc)
        ELSE c_buf[p]]

\* ------------------------------------------------------------- autotuner
\* key=['M', 'N', 'K']
ShapeKey == <<M, N, K>>

Memoize(ch, key, c) ==
    [k \in DOMAIN ch \cup {key} |-> IF k = key THEN c ELSE ch[k]]
Counted(sw, key) ==
    [k \in DOMAIN sw \cup {key} |-> IF k \in DOMAIN sw /\ k # key THEN sw[k]
                                    ELSE IF k \in DOMAIN sw THEN sw[k] + 1 ELSE 1]

\* ------------------------------------------------------------------ matmul
\* assert a.shape[1] == b.shape[0]; assert a.is_contiguous()
CheckShapeOnly == a_shape[2] = b_shape[1]
CheckConstraints == a_shape[2] = b_shape[1] /\ a_contig

\* the previous call, if any, is over
Returned == host_pc = "running" /\ \A p \in DOMAIN upc : upc[p] = "done"
CanCall == ncalls < MaxCalls /\ (host_pc \in {"idle", "rejected", "failed"} \/ Returned)

NoPrograms == <<>>

\* matmul(a, b, activation): an assertion fails
MatmulReject ==
    /\ CanCall
    /\ ~CheckConstraints
    /\ host_pc' = "rejected"
    /\ ncalls' = ncalls + 1
    /\ UNCHANGED <<c_buf, prev_c, cfg>>
    /\ UNCHANGED <<gvars, ivars, tvars, uvars, xvars>>

\* matmul(a, b, activation): c is allocated, the autotuner resolves the
\* configuration (the memoized one, or the winner of a benchmarking sweep of
\* the catalog, which is memoized) and the grid of programs is launched
MatmulLaunch ==
    /\ CanCall
    /\ CheckConstraints
    /\ \E g \in Garbage, w \in 1..NumConfigs :
        LET c == IF ShapeKey \in DOMAIN cache THEN cache[ShapeKey]
                 ELSE get_autotune_config[w]
        IN  /\ c_buf' = [p \in 0..(M * N - 1) |-> g]
            /\ prev_c' = IF Returned THEN c_buf ELSE <<>>
            /\ cfg' = c
            /\ cache' = Memoize(cache, ShapeKey, c)
            /\ sweeps' = IF ShapeKey \in DOMAIN cache THEN sweeps
                         ELSE Counted(sweeps, ShapeKey)
            /\ upc' = [p \in 0..(grid(M, N, c) - 1) |-> "ready"]
            /\ uk' = [p \in 0..(grid(M, N, c) - 1) |-> 0]
            /\ acc' = [p \in 0..(grid(M, N, c) - 1) |-> <<>>]
    /\ host_pc' = "running"
    /\ ncalls' = ncalls + 1
    /\ a_reads' = {}
    /\ b_reads' = {}
    /\ stores' = {}
    /\ UNCHANGED <<gvars, ivars, xvars>>

\* matmul(a, b, activation): the shape key is not memoized and every
\* candidate of the catalog fails to execute; the call fails
MatmulTuneFail ==
    /\ CanCall
    /\ CheckConstraints
    /\ ShapeKey \notin DOMAIN cache
    /\ \E g \in Garbage : c_buf' = [p \in 0..(M * N - 1) |-> g]
    /\ prev_c' = IF Returned THEN c_buf ELSE <<>>
    /\ sweeps' = Counted(sweeps, ShapeKey)
    /\ host_pc' = "failed"
    /\ ncalls' = ncalls + 1
    /\ upc' = NoPrograms /\ uk' = NoPrograms /\ acc' = NoPrograms
    /\ UNCHANGED <<cfg, cache, a_reads, b_reads, stores>>
    /\ UNCHANGED <<gvars, ivars, xvars>>

\* ------------------------------------------------ matmul_kernel: programs
InFlight == {p \in DOMAIN upc : upc[p] = "loop"}

\* one iteration of `for k in range(0, tl.cdiv(K, BLOCK_SIZE_K))`; the first
\* one follows the program-id mapping and tl.zeros
Iterate(pid) ==
    /\ host_pc = "running"
    /\ pid \in DOMAIN upc
    /\ upc[pid] \in {"ready", "loop"}
    /\ upc[pid] = "ready" => Cardinality(InFlight) < MaxActive
    /\ uk[pid] < cdiv(K, cfg.BLOCK_SIZE_K)
    /\ \E g \in Outside(pid, uk[pid], cfg) :
          acc' = [acc EXCEPT ![pid] =
                    dot(pid, uk[pid], cfg, g,
                        IF upc[pid] = "ready" THEN zeros(cfg) ELSE acc[pid])]
    /\ upc' = [upc EXCEPT ![pid] = "loop"]
    /\ uk' = [uk EXCEPT ![pid] = uk[pid] + 1]
    /\ a_reads' = a_reads \cup
          {<<offs_am(pid, r, cfg), uk[pid] * cfg.BLOCK_SIZE_K + kk,
             a_ptrs(pid, uk[pid], r, kk, cfg)>> :
               <<r, kk>> \in {x \in Rows(cfg) \X Ks(cfg) : k_mask(uk[pid], x[2], cfg)}}
    /\ b_reads' = b_reads \cup
          {<<uk[pid] * cfg.BLOCK_SIZE_K + kk, offs_bn(pid, j, cfg),
             b_ptrs(pid, uk[pid], kk, j, cfg)>> :
               <<kk, j>> \in {x \in Ks(cfg) \X Cols(cfg) : k_mask(uk[pid], x[1], cfg)}}
    /\ UNCHANGED <<stores, hvars, tvars, gvars, ivars, xvars>>

\* after the loop: activation, narrowing to fp16 and the masked store
Epilogue(pid) ==
    /\ host_pc = "running"
    /\ pid \in DOMAIN upc
    /\ upc[pid] = "loop"
    /\ uk[pid] = cdiv(K, cfg.BLOCK_SIZE_K)
    /\ c_buf' = Stored(pid, cfg, acc[pid])
    /\ stores' = stores \cup
          {<<pid, offs_cm(pid, rc[1], cfg), offs_cn(pid, rc[2], cfg),
             c_ptrs(pid, rc[1], rc[2], cfg)>> : rc \in StoreLanes(pid, cfg)}
    /\ upc' = [upc EXCEPT ![pid] = "done"]
    /\ acc' = [acc EXCEPT ![pid] = <<>>]
    /\ UNCHANGED <<uk, a_reads, b_reads, host_pc, ncalls, prev_c, cfg>>
    /\ UNCHANGED <<tvars, gvars, ivars, xvars>>

\* the autotuner before any lookup
Callers == 1..MaxCallers
NumCandidates == Min(NumConfigs, MaxCandidates)
TuneKeys == {<<m, 1, 1>> : m \in 1..MaxShapes}
NoKey == <<0, 0, 0>>

TuneIdle ==
    /\ t_pc = [c \in Callers |-> "idle"]
    /\ t_key = [c \in Callers |-> NoKey]
    /\ t_out = [c \in Callers |-> <<>>]
    /\ lock = 0
    /\ invocations = 0
    /\ t_fails = {}
    /\ resolved = <<>>
    /\ failed_keys = {}

Idle ==
    /\ host_pc = "idle" /\ ncalls = 0
    /\ c_buf = <<>> /\ prev_c = <<>> /\ cfg = NoConfig
    /\ cache = <<>> /\ sweeps = <<>>
    /\ upc = NoPrograms /\ uk = NoPrograms /\ acc = NoPrograms
    /\ a_reads = {} /\ b_reads = {} /\ stores = {}

\* the tensors a and b exist, nothing was called
Init ==
    /\ a_shape \in (1..MaxM) \X (1..MaxK)
    /\ b_shape \in (1..MaxK) \X (1..MaxN)
    /\ a_contig \in BOOLEAN
    /\ \E t \in TestInputs : pat = t[1] /\ b_trans = t[2] /\ activation = t[3]
    /\ Idle
    /\ TuneIdle
    /\ g_M = 1 /\ g_N = 1 /\ g_cfg = NoConfig /\ g_pid = 0 /\ g_tiles = <<>>
    /\ g_order = "grouped" /\ g_loaded = {}

Next ==
    \/ MatmulReject
    \/ MatmulLaunch
    \/ MatmulTuneFail
    \/ \E pid \in 0..(MaxM * MaxN - 1) : Iterate(pid)
    \/ \E pid \in 0..(MaxM * MaxN - 1) : Epilogue(pid)

Spec == Init /\ [][Next]_vars

\* ----------------------------------------------- autotuner: select(key)
\* the candidate of lowest cost among those that executed: the first of them
\* when several share it, 0 when none executed
Best(out) ==
    LET ran == {i \in 1..Len(out) : out[i] > 0}
    IN  IF ran = {} THEN 0
        ELSE CHOOSE i \in ran :
                \A j \in ran : out[i] < out[j] \/ (out[i] = out[j] /\ i <= j)

Returns(rs, key, c) ==
    [k \in DOMAIN rs \cup {key} |->
        IF k = key THEN (IF k \in DOMAIN rs THEN rs[k] ELSE {}) \cup {c} ELSE rs[k]]

\* a caller invokes the kernel with a shape key
TuneCall(c) ==
    /\ t_pc[c] = "idle"
    /\ invocations < MaxInvocations
    /\ \E key \in TuneKeys : t_key' = [t_key EXCEPT ![c] = key]
    /\ t_pc' = [t_pc EXCEPT ![c] = "wait"]
    /\ invocations' = invocations + 1
    /\ UNCHANGED <<t_out, lock, t_fails, resolved, failed_keys>>
    /\ UNCHANGED <<gvars, ivars, hvars, tvars, uvars>>

\* the benchmark-and-cache sequence is a critical section
LockFree_always == TRUE
LockFree == lock = 0

TuneEnter(c) ==
    /\ t_pc[c] = "wait"
    /\ LockFree
    /\ lock' = c
    /\ t_pc' = [t_pc EXCEPT ![c] = "lookup"]
    /\ UNCHANGED <<t_key, t_out, invocations, t_fails, resolved, failed_keys>>
    /\ UNCHANGED <<gvars, ivars, hvars, tvars, uvars>>

Hit_never(ch, key) == FALSE
Hit(ch, key) == key \in DOMAIN ch

\* the key is memoized: the cached configuration is returned at once
TuneHit(c) ==
    /\ t_pc[c] = "lookup"
    /\ Hit(cache, t_key[c])
    /\ resolved' = Returns(resolved, t_key[c], cache[t_key[c]])
    /\ lock' = 0
    /\ t_pc' = [t_pc EXCEPT ![c] = "idle"]
    /\ UNCHANGED <<t_key, t_out, invocations, t_fails, failed_keys>>
    /\ UNCHANGED <<gvars, ivars, hvars, tvars, uvars>>

\* first lookup of the key: a benchmarking sweep of the catalog starts
TuneMiss(c) ==
    /\ t_pc[c] = "lookup"
    /\ ~Hit(cache, t_key[c])
    /\ sweeps' = Counted(sweeps, t_key[c])
    /\ t_out' = [t_out EXCEPT ![c] = <<>>]
    /\ t_pc' = [t_pc EXCEPT ![c] = "bench"]
    /\ UNCHANGED <<cache, t_key, lock, invocations, t_fails, resolved, failed_keys>>
    /\ UNCHANGED <<gvars, ivars, hvars, uvars>>

\* whether the sweep goes on to the next candidate
SweepOn_until_failure(out) ==
    Len(out) < NumCandidates /\ \A i \in 1..Len(out) : out[i] > 0
SweepOn(out) == Len(out) < NumCandidates

\* the next candidate is run and measured; one that fails to execute is
\* excluded
TuneBench(c) ==
    /\ t_pc[c] = "bench"
    /\ SweepOn(t_out[c])
    /\ \E cost \in 1..MaxCost :
          t_out' = [t_out EXCEPT ![c] =
                      Append(t_out[c],
                             IF <<t_key[c], Len(t_out[c]) + 1>> \in t_fails
                             THEN 0 ELSE cost)]
    /\ UNCHANGED <<t_pc, t_key, lock, invocations, t_fails, resolved, failed_keys>>
    /\ UNCHANGED <<gvars, ivars, hvars, tvars, uvars>>

\* the sweep is over: the candidate of lowest cost is memoized and returned;
\* with no working candidate the call fails
TuneFinish(c) ==
    /\ t_pc[c] = "bench"
    /\ ~SweepOn(t_out[c])
    /\ IF Best(t_out[c]) = 0
       THEN /\ failed_keys' = failed_keys \cup {t_key[c]}
            /\ UNCHANGED <<cache, resolved>>
       ELSE /\ cache' = Memoize(cache, t_key[c], get_autotune_config[Best(t_out[c])])
            /\ resolved' = Returns(resolved, t_key[c],
                                   get_autotune_config[Best(t_out[c])])
            /\ UNCHANGED failed_keys
    /\ lock' = 0
    /\ t_out' = [t_out EXCEPT ![c] = <<>>]
    /\ t_pc' = [t_pc EXCEPT ![c] = "idle"]
    /\ UNCHANGED <<sweeps, t_key, invocations, t_fails>>
    /\ UNCHANGED <<gvars, ivars, hvars, uvars>>

TuneInit ==
    /\ t_pc = [c \in Callers |-> "idle"]
    /\ t_key = [c \in Callers |-> NoKey]
    /\ t_out = [c \in Callers |-> <<>>]
    /\ lock = 0
    /\ invocations = 0
    /\ t_fails \in SUBSET (TuneKeys \X (1..NumCandidates))
    /\ resolved = <<>>
    /\ failed_keys = {}
    /\ a_shape = <<1, 1>> /\ b_shape = <<1, 1>>
    /\ a_contig = TRUE /\ b_trans = FALSE
    /\ pat = "signed" /\ activation = ""
    /\ Idle
    /\ g_M = 1 /\ g_N = 1 /\ g_cfg = NoConfig /\ g_pid = 0 /\ g_tiles = <<>>
    /\ g_order = "grouped" /\ g_loaded = {}

TuneNext ==
    \/ \E c \in Callers : TuneCall(c)
    \/ \E c \in Callers : TuneEnter(c)
    \/ \E c \in Callers : TuneHit(c)
    \/ \E c \in Callers : TuneMiss(c)
    \/ \E c \in Callers : TuneBench(c)
    \/ \E c \in Callers : TuneFinish(c)

SpecTune == TuneInit /\ [][TuneNext]_vars

\* ------------------------------------------------------------ the claims
\* the reference product: sum over k in [0, K) of A[i][k] * B[k][j]
RefDot(i, j) ==
    LET S[n \in 0..K] == IF n = 0 THEN 0 ELSE S[n - 1] + A(i, n - 1) * B(n - 1, j)
    IN  S[K]

Identity == activation # "leaky_relu"

\* the statement of C2 as written: after matmul(a, b) has run all its
\* programs, every C[i][j] with i < M and j < N equals the reference product
\* exactly (identity activation)
C2_ExactProduct ==
    (Returned /\ Identity) =>
        \A i \in 0..(M - 1), j \in 0..(N - 1) :
            c_buf[i * N + j] = Scale * RefDot(i, j)

\* C2, amended: after matmul(a, b) has run all its programs, every C[i][j]
\* with i < M and j < N equals the reference product narrowed to the fp16
\* output type (identity activation), whatever the block configuration and
\* also when M, N or K are not multiples of the block sizes: the values
\* loaded through wrapped rows and columns and the zeroed K positions change
\* no element of the valid region.
C2_NarrowedProduct ==
    (Returned /\ Identity) =>
        \A i \in 0..(M - 1), j \in 0..(N - 1) :
            c_buf[i * N + j] = ToFp16(Scale * RefDot(i, j))

\* all programs are done with M, N and K not multiples of the block sizes,
\* a second K iteration that is partly masked, and a sum that fp16 rounds
C2_Witness ==
    /\ Returned /\ activation = ""
    /\ M % cfg.BLOCK_SIZE_M # 0 /\ N % cfg.BLOCK_SIZE_N # 0
    /\ K % cfg.BLOCK_SIZE_K # 0 /\ K > cfg.BLOCK_SIZE_K
    /\ grid(M, N, cfg) >= 2
    /\ \E i \in 0..(M - 1) : c_buf[i * N] # Scale * RefDot(i, 0)

\* C3: no two distinct programs ever store to the same address of C, in any
\* interleaving, and once all programs are done every element of C with
\* row < M and col < N was stored by exactly one program.
C3_DisjointStores ==
    /\ \A s, t \in stores : s[4] = t[4] => s[1] = t[1]
    /\ (host_pc = "running" /\ \A p \in DOMAIN upc : upc[p] = "done") =>
          \A i \in 0..(M - 1), j \in 0..(N - 1) :
              Cardinality({s \in stores : s[4] = i * stride_cm + j * stride_cn}) = 1

\* two programs of different groups are in flight together, others are done,
\* and the last group is smaller than GROUP_SIZE_M
C3_Witness ==
    /\ host_pc = "running"
    /\ Cardinality({p \in DOMAIN upc : upc[p] = "loop"}) = 2
    /\ Cardinality({s[1] : s \in stores}) >= 2
    /\ num_pid_m(M, cfg) > cfg.GROUP_SIZE_M
    /\ num_pid_m(M, cfg) % cfg.GROUP_SIZE_M # 0
    /\ num_pid_n(N, cfg) = 2

\* what C must hold, from a, b and the activation alone
ExpectedC ==
    [p \in 0..(M * N - 1) |->
        LET x == Scale * RefDot(p \div N, p % N)
        IN  ToFp16(IF activation = "leaky_relu" /\ x < 0 THEN x \div Scale ELSE x)]

\* C4: whatever the order and interleaving of the programs, once they are all
\* done C is the one result that a, b and the activation determine, and a
\* second invocation on the same inputs ends in a C identical to the first.
C4_Deterministic ==
    (host_pc = "running" /\ \A p \in DOMAIN upc : upc[p] = "done") =>
        /\ c_buf = ExpectedC
        /\ prev_c # <<>> => c_buf = prev_c

\* the second invocation is over, after a first one that returned, with
\* several programs, each of several iterations
C4_Witness ==
    /\ Returned /\ ncalls = 2 /\ prev_c # <<>> /\ c_buf = prev_c
    /\ grid(M, N, cfg) >= 4
    /\ cdiv(K, cfg.BLOCK_SIZE_K) >= 2
    /\ activation = "leaky_relu"

BadInputs == a_shape[2] # b_shape[1] \/ ~a_contig

\* C8: when a's column count differs from b's row count, or a is not
\* contiguous, every call of matmul(a, b) is rejected, and nothing else has
\* happened: no output buffer was allocated, the autotuner was not consulted
\* (no sweep, no cache entry) and no program was dispatched or ran.
C8_RejectedFirst ==
    BadInputs =>
        /\ host_pc \in {"idle", "rejected"}
        /\ ncalls >= 1 => host_pc = "rejected"
        /\ c_buf = <<>> /\ prev_c = <<>>
        /\ cache = <<>> /\ sweeps = <<>> /\ cfg = NoConfig
        /\ upc = <<>> /\ uk = <<>> /\ acc = <<>>
        /\ a_reads = {} /\ b_reads = {} /\ stores = {}

\* a non-contiguous a of matching shape was rejected twice
C8_Witness ==
    /\ host_pc = "rejected" /\ ncalls = 2
    /\ ~a_contig /\ a_shape[2] = b_shape[1]

\* C9: every element read from A has its row in [0, M) and its K index in
\* [0, K), every element read from B has its K index in [0, K) and its column
\* in [0, N), each at the address of that element, and every element stored
\* to C has row < M and col < N, at its address inside the buffer.
C9_InBounds ==
    /\ \A rd \in a_reads :
          /\ rd[1] \in 0..(M - 1) /\ rd[2] \in 0..(K - 1)
          /\ rd[3] = rd[1] * stride_am + rd[2] * stride_ak
    /\ \A rd \in b_reads :
          /\ rd[1] \in 0..(K - 1) /\ rd[2] \in 0..(N - 1)
          /\ rd[3] = rd[1] * stride_bk + rd[2] * stride_bn
    /\ \A s \in stores :
          /\ s[2] \in 0..(M - 1) /\ s[3] \in 0..(N - 1)
          /\ s[4] = s[2] * stride_cm + s[3] * stride_cn
          /\ s[4] \in DOMAIN c_buf

\* a program whose tile sticks out in M and in N ran its partly masked last
\* iteration and stored fewer lanes than its tile has
C9_Witness ==
    /\ host_pc = "running" /\ b_trans
    /\ \E p \in DOMAIN upc :
          /\ upc[p] = "done"
          /\ (pid_m(p, M, N, cfg) + 1) * cfg.BLOCK_SIZE_M > M
          /\ (pid_n(p, M, N, cfg) + 1) * cfg.BLOCK_SIZE_N > N
          /\ Cardinality({s \in stores : s[1] = p})
                < cfg.BLOCK_SIZE_M * cfg.BLOCK_SIZE_N
    /\ cdiv(K, cfg.BLOCK_SIZE_K) * cfg.BLOCK_SIZE_K > K
    /\ a_reads # {} /\ b_reads # {}

\* C10: in the epilogue of a program, with the selector "leaky_relu" every
\* accumulator element x is stored as x when x >= 0 and as 0.01 * x when
\* x < 0; with any other selector, the empty default and unrecognized ones
\* included, it is stored as x, and the program completes.
C10_Activation ==
    [][\A p \in DOMAIN upc :
          (upc[p] = "loop" /\ upc'[p] = "done") =>
              \A rc \in Rows(cfg) \X Cols(cfg) :
                  (offs_cm(p, rc[1], cfg) < M /\ offs_cn(p, rc[2], cfg) < N) =>
                      LET x == acc[p][rc]
                          y == c_buf'[offs_cm(p, rc[1], cfg) * N + offs_cn(p, rc[2], cfg)]
                      IN  IF activation = "leaky_relu" /\ x < 0
                          THEN y = ToFp16(x \div Scale) /\ Scale * (x \div Scale) = x
                          ELSE y = ToFp16(x)]_vars

\* accumulators -1.0, 0.0 and 1.0 under "leaky_relu" were stored as -0.01,
\* 0.0 and 1.0
C10_Witness ==
    /\ Returned /\ activation = "leaky_relu"
    /\ M = 3 /\ N = 1 /\ K = 1
    /\ c_buf[0] = -1 /\ c_buf[1] = 0 /\ c_buf[2] = Scale

SweepsOf(sw, k) == IF k \in DOMAIN sw THEN sw[k] ELSE 0

C7_SweepResult ==
    [][\A c \in Callers :
          (t_pc[c] = "bench" /\ t_pc'[c] = "idle") =>
              LET out == t_out[c]
                  k == t_key[c]
                  ran == {i \in 1..Len(out) : out[i] > 0}
              IN  /\ Len(out) = NumCandidates
                  /\ \A i \in 1..NumCandidates : out[i] = 0 <=> <<k, i>> \in t_fails
                  /\ k \in failed_keys' <=> ran = {}
                  /\ ran = {} => (k \notin DOMAIN cache' /\ k \notin DOMAIN resolved')
                  /\ ran # {} =>
                        /\ k \in DOMAIN cache' /\ resolved'[k] = {cache'[k]}
                        /\ \E i \in ran :
                              /\ cache'[k] = get_autotune_config[i]
                              /\ \A j \in ran : out[i] <= out[j]]_vars

\* for one key the first candidate fails and the third is cached although the
\* second executed too; another key's lookup failed with every candidate failing
C7_Witness ==
    /\ \E k \in DOMAIN cache :
          /\ cache[k] = get_autotune_config[3]
          /\ <<k, 1>> \in t_fails /\ <<k, 2>> \notin t_fails
    /\ \E k \in failed_keys : \A i \in 1..NumCandidates : <<k, i>> \in t_fails

\* ------------------------------------------- the program-id mapping alone
GridConfigs ==
    [BLOCK_SIZE_M : 1..GridMaxBlock, BLOCK_SIZE_N : 1..GridMaxBlock,
     BLOCK_SIZE_K : {1}, GROUP_SIZE_M : 1..GridMaxGroup]

GridInit ==
    /\ g_M \in 1..GridMaxDim
    /\ g_N \in 1..GridMaxDim
    /\ g_cfg \in GridConfigs
    /\ g_pid = 0
    /\ g_tiles = <<>>
    /\ g_order = "grouped" /\ g_loaded = {}
    /\ a_shape = <<1, 1>> /\ b_shape = <<1, 1>>
    /\ a_contig = TRUE /\ b_trans = FALSE
    /\ pat = "signed" /\ activation = ""
    /\ Idle
    /\ TuneIdle

\* program g_pid runs the first lines of matmul_kernel
MapPid ==
    /\ g_pid < grid(g_M, g_N, g_cfg)
    /\ g_tiles' = Append(g_tiles, <<pid_m(g_pid, g_M, g_N, g_cfg),
                                    pid_n(g_pid, g_M, g_N, g_cfg)>>)
    /\ g_pid' = g_pid + 1
    /\ UNCHANGED <<g_M, g_N, g_cfg, g_order, g_loaded>>
    /\ UNCHANGED <<ivars, hvars, tvars, uvars, xvars>>

GridNext == MapPid

SpecGrid == GridInit /\ [][GridNext]_vars

\* C1: the grouped mapping pid -> (pid_m, pid_n) is a bijection from
\* [0, num_pid_m * num_pid_n) onto [0, num_pid_m) x [0, num_pid_n): it is
\* defined for every such pid (group_size_m >= 1), every tile coordinate is
\* in range, no pair is produced twice, and once every pid is mapped every
\* pair has been produced.
C1_GridBijection ==
    /\ \A p \in 0..(grid(g_M, g_N, g_cfg) - 1) :
          group_size_m(p, g_M, g_N, g_cfg) >= 1
    /\ \A p \in 1..Len(g_tiles) :
          /\ g_tiles[p][1] \in 0..(num_pid_m(g_M, g_cfg) - 1)
          /\ g_tiles[p][2] \in 0..(num_pid_n(g_N, g_cfg) - 1)
    /\ \A p, q \in 1..Len(g_tiles) : g_tiles[p] = g_tiles[q] => p = q
    /\ g_pid = grid(g_M, g_N, g_cfg) =>
          {g_tiles[p] : p \in 1..Len(g_tiles)}
              = (0..(num_pid_m(g_M, g_cfg) - 1)) \X (0..(num_pid_n(g_N, g_cfg) - 1))

\* every program is mapped, the last group is smaller than GROUP_SIZE_M and
\* is not the first group
C1_Witness ==
    /\ g_pid = grid(g_M, g_N, g_cfg)
    /\ num_pid_m(g_M, g_cfg) > g_cfg.GROUP_SIZE_M
    /\ num_pid_m(g_M, g_cfg) % g_cfg.GROUP_SIZE_M # 0
    /\ num_pid_n(g_N, g_cfg) >= 2
    /\ g_M % g_cfg.BLOCK_SIZE_M # 0

\* C11: taking pids in increasing order, the tiles come band by band (band g
\* holds the tile-rows g*GROUP_SIZE_M .. min((g+1)*GROUP_SIZE_M, num_pid_m)-1,
\* and every tile of band g comes before any tile of band g+1); within a
\* band the order is column-major: tile_col never decreases and tile_row
\* cycles through the band's rows, the cycle length being the clamped band
\* height min(num_pid_m - first_pid_m, GROUP_SIZE_M) in the final band.
\* M = N = 9 with 4x4 blocks and GROUP_SIZE_M = 2 gives 9 tiles, the final
\* band being the single tile-row 2.
C11_GroupedOrder ==
    LET G   == g_cfg.GROUP_SIZE_M
        npm == num_pid_m(g_M, g_cfg)
        npn == num_pid_n(g_N, g_cfg)
        band(t) == t[1] \div G
        lo(t) == band(t) * G
        hi(t) == Min((band(t) + 1) * G, npm) - 1
    IN  /\ Len(g_tiles) >= 1 => g_tiles[1] = <<0, 0>>
        /\ \A p, q \in 1..Len(g_tiles) :
              p < q =>
                  /\ band(g_tiles[p]) <= band(g_tiles[q])
                  /\ band(g_tiles[p]) = band(g_tiles[q])
                        => g_tiles[p][2] <= g_tiles[q][2]
        /\ \A p \in 1..(Len(g_tiles) - 1) :
              LET t == g_tiles[p]
                  u == g_tiles[p + 1]
              IN  IF t[1] < hi(t)
                  THEN u = <<t[1] + 1, t[2]>>
                  ELSE IF t[2] < npn - 1
                       THEN u = <<lo(t), t[2] + 1>>
                       ELSE u = <<hi(t) + 1, 0>>
        /\ (/\ g_M = 9 /\ g_N = 9 /\ G = 2
            /\ g_cfg.BLOCK_SIZE_M = 4 /\ g_cfg.BLOCK_SIZE_N = 4
            /\ g_pid = grid(g_M, g_N, g_cfg))
              => g_tiles = << <<0, 0>>, <<1, 0>>, <<0, 1>>, <<1, 1>>, <<0, 2>>,
                              <<1, 2>>, <<2, 0>>, <<2, 1>>, <<2, 2>> >>

\* the 9x9 example fully enumerated: the seventh program starts the final
\* band, which is one tile-row high
C11_Witness ==
    /\ g_M = 9 /\ g_N = 9 /\ g_cfg.GROUP_SIZE_M = 2
    /\ g_cfg.BLOCK_SIZE_M = 4 /\ g_cfg.BLOCK_SIZE_N = 4
    /\ g_pid = 9
    /\ Len(g_tiles) = 9
    /\ g_tiles[7] = <<2, 0>>
    /\ g_tiles[9] = <<2, 2>>

\* ------------------------------------------- input blocks loaded, by order
\* the simple row-major ordering of the L2 Cache Optimizations section
grid_n(c) == cdiv(N, c.BLOCK_SIZE_N)
rowmajor_pid_m(pid, c) == pid \div grid_n(c)
rowmajor_pid_n(pid, c) == pid % grid_n(c)

Orders == {"grouped", "rowmajor"}

\* the block of C program pid computes under either ordering
Tile(order, pid, c) ==
    IF order = "grouped"
    THEN <<pid_m(pid, M, N, c), pid_n(pid, M, N, c)>>
    ELSE <<rowmajor_pid_m(pid, c), rowmajor_pid_n(pid, c)>>

\* for k in range(0, tl.cdiv(K, BLOCK_SIZE_K)): the program of tile t loads
\* block (t[1], k) of A and block (k, t[2]) of B
InputBlocks(t, c) ==
    {<<"a", t[1], k>> : k \in 0..(cdiv(K, c.BLOCK_SIZE_K) - 1)}
        \cup {<<"b", k, t[2]>> : k \in 0..(cdiv(K, c.BLOCK_SIZE_K) - 1)}

ReuseConfigs ==
    {[BLOCK_SIZE_M |-> b, BLOCK_SIZE_N |-> b, BLOCK_SIZE_K |-> b,
      GROUP_SIZE_M |-> g] : b \in 1..ReuseMaxBlock, g \in 1..ReuseMaxGroup}

ReuseInit ==
    /\ g_M \in 1..ReuseMaxDim
    /\ g_N \in 1..ReuseMaxDim
    /\ \E kk \in 1..ReuseMaxDim :
          /\ a_shape = <<g_M, kk>>
          /\ b_shape = <<kk, g_N>>
    /\ g_cfg \in ReuseConfigs
    /\ g_order \in Orders
    /\ g_pid = 0
    /\ g_tiles = <<>>
    /\ g_loaded = {}
    /\ a_contig = TRUE /\ b_trans = FALSE
    /\ pat = "signed" /\ activation = ""
    /\ Idle
    /\ TuneIdle

\* program g_pid computes its output block, loading the blocks of A and B
\* its K loop goes through
LoadTile ==
    /\ g_pid < grid(M, N, g_cfg)
    /\ g_tiles' = Append(g_tiles, Tile(g_order, g_pid, g_cfg))
    /\ g_loaded' = g_loaded \cup InputBlocks(Tile(g_order, g_pid, g_cfg), g_cfg)
    /\ g_pid' = g_pid + 1
    /\ UNCHANGED <<g_M, g_N, g_cfg, g_order>>
    /\ UNCHANGED <<ivars, hvars, tvars, uvars, xvars>>

ReuseNext == LoadTile

SpecReuse == ReuseInit /\ [][ReuseNext]_vars

\* A, B and C are 9 blocks by 9 blocks and the first 9 programs have run
NineByNine ==
    /\ cdiv(M, g_cfg.BLOCK_SIZE_M) = 9
    /\ cdiv(N, g_cfg.BLOCK_SIZE_N) = 9
    /\ cdiv(K, g_cfg.BLOCK_SIZE_K) = 9
    /\ g_pid = 9

\* C12: where each matrix is 9 blocks by 9 blocks, the first 9 output blocks
\* (pid 0..8) need 90 distinct input blocks in row-major ordering, and only
\* 54 in the grouped ordering with groups of 3 tile-rows.
C12_ReuseCount ==
    /\ (NineByNine /\ g_order = "rowmajor") => Cardinality(g_loaded) = 90
    /\ (NineByNine /\ g_order = "grouped" /\ g_cfg.GROUP_SIZE_M = 3)
          => Cardinality(g_loaded) = 54

\* the grouped ordering has computed the 3x3 corner of C
C12_Witness ==
    /\ NineByNine
    /\ g_order = "grouped"
    /\ g_cfg.GROUP_SIZE_M = 3
    /\ {g_tiles[p] : p \in 1..9} = (0..2) \X (0..2)
    /\ Cardinality({b \in g_loaded : b[1] = "a"}) = 27
    /\ Cardinality({b \in g_loaded : b[1] = "b"}) = 27

=============================================================================
